---- MODULE Spec2Model ----
(***************************************************************************)
(* A model of feedmixer.FeedMixer (src/feedmixer.py): the lazily run,      *)
(* memoised fetch / select / merge / normalise pipeline and the            *)
(* configuration setters that invalidate its result.                       *)
(*                                                                         *)
(* Python values are modelled as follows.                                  *)
(*   dict            a function whose domain is the set of keys present    *)
(*   list, tuple     a sequence                                            *)
(*   None            the value None below                                  *)
(*   str used only for equality   a TLA+ string                            *)
(*   str compared with < (the 'published' text)   the sequence of its      *)
(*                   character codes, compared lexicographically           *)
(*   datetime        the tuple <<year, month, day, hour, minute, second>>, *)
(*                   compared lexicographically                            *)
(***************************************************************************)
EXTENDS Integers, Sequences, FiniteSets, TLC

\* ------------------------------------------------------------------ bounds

\* The largest number of entries a served feed document holds: where one
\* pipeline run of a new instance is explored, and where the instance's whole
\* life is.
MaxEntries == 2

MaxLifeEntries == 1

\* The largest number of entries of a document where the selection of the
\* newest entries is explored by itself, and the longest list of entries
\* where extract_meta is.
MaxDocEntries == 3

MaxMetaEntries == 2

\* The lists a caller assigns to `feeds` (the last is longer than max_feeds).
FeedLists == {<<>>, <<"u1">>, <<"u2", "u1", "u3">>}

\* The values a caller assigns to `num_keep`.
NumKeeps == {-2, -1, 0, 1, 2}

\* The values a caller assigns to title, link and desc (link and desc are
\* reassigned the value they hold).
Titles == {"Title", "Mixed"}
Links == {""}
Descs == {""}

\* ------------------------------------------------------------ Python values

None == "None"

\* dict.get(k): the value under k, or None when k is absent.
Get(d, k) == IF k \in DOMAIN d THEN d[k] ELSE None

\* dict.get(k, default)
GetOr(d, k, default) == IF k \in DOMAIN d THEN d[k] ELSE default

EmptyDict == [k \in {} |-> None]

\* d[k] = v
Put(d, k, v) == [x \in DOMAIN d \cup {k} |-> IF x = k THEN v ELSE d[x]]

Min(a, b) == IF a <= b THEN a ELSE b

Max(a, b) == IF a >= b THEN a ELSE b

\* The list slice s[0:k]: a negative k counts from the end of the list.
SliceTo(s, k) ==
    LET stop == IF k < 0 THEN Max(Len(s) + k, 0) ELSE Min(k, Len(s))
    IN  SubSeq(s, 1, stop)

\* Lexicographic a < b on sequences of integers: Python's order on str (by
\* character code) and on tuples and datetimes (by component).
RECURSIVE SeqLess(_, _)
SeqLess(a, b) ==
    IF Len(b) = 0 THEN FALSE
    ELSE IF Len(a) = 0 THEN TRUE
    ELSE IF Head(a) # Head(b) THEN Head(a) < Head(b)
    ELSE SeqLess(Tail(a), Tail(b))

\* ------------------------------------------- what the remote servers return

\* Two publication dates as a feed document carries them: the text of the
\* date element (RFC 822 style, day first) and the time tuple the parser
\* derives from it.  As text "02 Jan 2023" > "01 Jan 2024"; as instants
\* the order is the opposite.  The later one falls on a leap second.
PubEarly ==
    [published |-> <<48, 50, 32, 74, 97, 110, 32, 50, 48, 50, 51>>,
     published_parsed |-> <<2023, 1, 2, 0, 0, 0>>]

PubLate ==
    [published |-> <<48, 49, 32, 74, 97, 110, 32, 50, 48, 50, 52>>,
     published_parsed |-> <<2024, 1, 1, 23, 59, 60>>]

OwnAuthor == [name |-> "entry author", email |-> "entry@example.com"]

FeedAuthor == [name |-> "feed author", href |-> "http://example.com/about"]

\* The kinds of entry a document is made of: which date it carries, if any,
\* and whether it names its own author.
EntryKinds ==
    {[pub |-> "early", author |-> FALSE],
     [pub |-> "late", author |-> TRUE],
     [pub |-> "none", author |-> FALSE]}

\* The entry of kind `kind` at position k of the document served at url, as
\* the parser returns it: a dict holding only the keys the document gives.
Entry(url, k, kind) ==
    LET keys == {"id", "title", "link"}
                \cup (IF kind.pub # "none"
                      THEN {"published", "published_parsed"} ELSE {})
                \cup (IF kind.author THEN {"author_detail"} ELSE {})
        date == IF kind.pub = "early" THEN PubEarly ELSE PubLate
    IN  [f \in keys |->
            CASE f = "id" -> <<url, k>>
              [] f = "title" -> "entry"
              [] f = "link" -> url
              [] f = "published" -> date.published
              [] f = "published_parsed" -> date.published_parsed
              [] f = "author_detail" -> OwnAuthor]

\* Sequences over S of length at most n.
SeqsUpTo(S, n) == UNION {[1..m -> S] : m \in 0..n}

\* What one fetch can end in: a transport failure, or a response that parses
\* to a document of some shape (its entries' kinds, the parser's bozo flag,
\* whether the feed names an author).  A document with the bozo flag set
\* holds at most one entry here.
Failure == [kind |-> "RequestException"]

Response(ks, bozo, author) ==
    [kind |-> "response", kinds |-> ks, bozo |-> bozo, author |-> author]

Plain == [pub |-> "early", author |-> FALSE]

Undated == [pub |-> "none", author |-> FALSE]

BozoShapes == {Response(ks, TRUE, FALSE) : ks \in SeqsUpTo({Plain}, 1)}

\* The outcomes drawn where one pipeline run is explored.
Shapes ==
    {Failure} \cup BozoShapes
    \cup {Response(ks, FALSE, a) :
            ks \in SeqsUpTo(EntryKinds, MaxEntries), a \in BOOLEAN}

\* The outcomes drawn where the life of an instance is explored.
LifeShapes ==
    {Failure, Response(<<Undated>>, FALSE, FALSE)} \cup BozoShapes
    \cup {Response(ks, FALSE, FALSE) : ks \in SeqsUpTo({Plain}, MaxLifeEntries)}

\* feedparser.parse(resp.text) of a response of shape sh served at url.
Parsed(url, sh) ==
    [entries |-> [k \in DOMAIN sh.kinds |-> Entry(url, k, sh.kinds[k])],
     bozo |-> sh.bozo,
     feed |-> IF sh.author THEN [author_detail |-> FeedAuthor] ELSE EmptyDict]

\* --------------------------------------------------------------- the pipeline

\* datetime.datetime(*tp[:5] + (min(tp[5], 59),))
ToDatetime(tp) == <<tp[1], tp[2], tp[3], tp[4], tp[5], Min(tp[6], 59)>>

\* `if tp:` for tp = e.get(key): the key is present and its tuple not empty.
Truthy(e, key) == key \in DOMAIN e /\ e[key] # <<>>

\* The keys of the metadata dict extract_meta builds for the entry e.
MetaKeys(e) ==
    {"title", "link", "description", "comments", "unique_id", "item_copyright"}
    \cup (IF "author_detail" \in DOMAIN e
          THEN {"author_email", "author_name", "author_link"} ELSE {})
    \cup (IF Truthy(e, "published_parsed") THEN {"pubdate"} ELSE {})
    \cup (IF Truthy(e, "updated_parsed") THEN {"updateddate"} ELSE {})
    \cup (IF "tags" \in DOMAIN e THEN {"categories"} ELSE {})
    \cup (IF "enclosures" \in DOMAIN e THEN {"enclosures"} ELSE {})

\* One turn of extract_meta's loop: the metadata dict of the entry e.
Metadata(e) ==
    [f \in MetaKeys(e) |->
        CASE f = "title" -> GetOr(e, "title", "")
          [] f = "link" -> GetOr(e, "link", "")
          [] f = "description" -> GetOr(e, "description", "")
          [] f = "author_email" -> Get(e["author_detail"], "email")
          [] f = "author_name" -> Get(e["author_detail"], "name")
          [] f = "author_link" -> Get(e["author_detail"], "href")
          [] f = "pubdate" -> ToDatetime(e["published_parsed"])
          [] f = "updateddate" -> ToDatetime(e["updated_parsed"])
          [] f = "comments" -> Get(e, "comments")
          [] f = "unique_id" -> Get(e, "id")
          [] f = "item_copyright" -> Get(e, "license")
          [] f = "categories" ->
                [i \in DOMAIN e["tags"] |-> Get(e["tags"][i], "term")]
          [] f = "enclosures" ->
                [i \in DOMAIN e["enclosures"] |->
                    <<e["enclosures"][i]["href"], e["enclosures"][i]["length"],
                      e["enclosures"][i]["type"]>>]]

\* enc.href, enc.length, enc.type: an AttributeError when an enclosure of
\* the entry e lacks one of them.
EnclosureKeys == {"href", "length", "type"}

MetaRaises(e) ==
    /\ "enclosures" \in DOMAIN e
    /\ \E i \in DOMAIN e["enclosures"] :
          ~(EnclosureKeys \subseteq DOMAIN e["enclosures"][i])

\* extract_meta raises on the list entries.
ExtractRaises(entries) == \E i \in DOMAIN entries : MetaRaises(entries[i])

\* What extract_meta returns when it does not raise.
extract_meta(entries) ==
    [i \in DOMAIN entries |-> Metadata(entries[i])]

\* ParseErr with the test of the entry count left out.
ParseErrBozoOnly(f) == f.bozo

\* parse_err = len(f.get('entries')) == 0 and f.get('bozo')
ParseErr(f) == Len(f.entries) = 0 /\ f.bozo

\* The unlimited sentinel of num_keep.
Unlimited == -1

\* Newest that keeps the entries at the end of the document.
NewestFromEnd(f, num_keep) ==
    IF num_keep = -1 THEN f.entries
    ELSE SubSeq(f.entries, Len(f.entries) - Len(SliceTo(f.entries, num_keep)) + 1,
                Len(f.entries))

\* Newest that keeps one entry more than num_keep.
NewestOffByOne(f, num_keep) ==
    IF num_keep = -1 THEN f.entries ELSE SliceTo(f.entries, num_keep + 1)

\* newest: the entries kept from the parsed document f.
Newest(f, num_keep) ==
    IF num_keep = Unlimited THEN f.entries ELSE SliceTo(f.entries, num_keep)

\* Backfill without the test that the entry has no author of its own.
BackfillOverwrite(f, newest) ==
    IF "author_detail" \in DOMAIN f.feed
    THEN [i \in DOMAIN newest |->
            Put(newest[i], "author_detail", f.feed["author_detail"])]
    ELSE newest

\* "use feed author if individual entries are missing author property"
Backfill(f, newest) ==
    IF "author_detail" \in DOMAIN f.feed
    THEN [i \in DOMAIN newest |->
            IF "author_detail" \notin DOMAIN newest[i]
            THEN Put(newest[i], "author_detail", f.feed["author_detail"])
            ELSE newest[i]]
    ELSE newest

\* Collect in which a failed fetch also discards the entries collected so far.
CollectAbort(acc, url, sh, num_keep) ==
    IF sh.kind = "RequestException"
    THEN [parsed_entries |-> <<>>,
          error_urls |-> Put(acc.error_urls, url, "RequestException")]
    ELSE LET f == Parsed(url, sh)
         IN  IF ParseErr(f)
             THEN [acc EXCEPT !.error_urls = Put(@, url, "ParseError")]
             ELSE [acc EXCEPT
                     !.parsed_entries = @ \o Backfill(f, Newest(f, num_keep))]

\* Collect that records only the first failure of a run.
CollectFirstErrorOnly(acc, url, sh, num_keep) ==
    IF sh.kind = "RequestException"
    THEN IF acc.error_urls # EmptyDict THEN acc
         ELSE [acc EXCEPT !.error_urls = Put(@, url, "RequestException")]
    ELSE LET f == Parsed(url, sh)
         IN  IF ParseErr(f)
             THEN IF acc.error_urls # EmptyDict THEN acc
                  ELSE [acc EXCEPT !.error_urls = Put(@, url, "ParseError")]
             ELSE [acc EXCEPT
                     !.parsed_entries = @ \o Backfill(f, Newest(f, num_keep))]

\* The body of the `for future in as_completed(...)` loop for the future of
\* url that ended in sh; acc holds parsed_entries and self._error_urls.
Collect(acc, url, sh, num_keep) ==
    IF sh.kind = "RequestException"
    THEN [acc EXCEPT !.error_urls = Put(@, url, "RequestException")]
    ELSE LET f == Parsed(url, sh)
         IN  IF ParseErr(f)
             THEN [acc EXCEPT !.error_urls = Put(@, url, "ParseError")]
             ELSE [acc EXCEPT
                     !.parsed_entries = @ \o Backfill(f, Newest(f, num_keep))]

\* The whole loop: the futures are collected in the order they complete,
\* order[j] being the index in feeds of the j-th future to complete.
RECURSIVE CollectAll(_, _, _, _, _)
CollectAll(acc, feeds, resp, order, num_keep) ==
    IF order = <<>> THEN acc
    ELSE CollectAll(Collect(acc, feeds[Head(order)], resp[Head(order)], num_keep),
                    feeds, resp, Tail(order), num_keep)

\* The sort key: e['published'], a KeyError when the entry has none.
HasSortKey(e) == "published" \in DOMAIN e

\* x put into the list s, which is sorted by 'published' descending: after
\* the elements whose key is not smaller (the sort is stable).
RECURSIVE InsertDesc(_, _)
InsertDesc(s, x) ==
    IF s = <<>> THEN <<x>>
    ELSE IF SeqLess(Head(s).published, x.published) THEN <<x>> \o s
    ELSE <<Head(s)>> \o InsertDesc(Tail(s), x)

\* parsed_entries.sort(key=lambda e: e['published'], reverse=True)
RECURSIVE SortDesc(_)
SortDesc(s) ==
    IF s = <<>> THEN <<>>
    ELSE InsertDesc(SortDesc(SubSeq(s, 1, Len(s) - 1)), s[Len(s)])

\* ResetErrors with the assignment left out: the map is carried over.
KeepErrors(previous) == previous

\* self._error_urls = {}, where previous is the map of the run before.
ResetErrors(previous) == EmptyDict

\* The end of __fetch_entries, from what the loop collected: the sort, which
\* raises KeyError when an entry has no key, then extract_meta, which raises
\* AttributeError on an enclosure without href, length or type.
Merge(acc) ==
    IF \E i \in DOMAIN acc.parsed_entries : ~HasSortKey(acc.parsed_entries[i])
    THEN [error_urls |-> acc.error_urls, raised |-> TRUE, exc |-> "KeyError",
          mixed_entries |-> <<>>]
    ELSE IF ExtractRaises(acc.parsed_entries)
    THEN [error_urls |-> acc.error_urls, raised |-> TRUE,
          exc |-> "AttributeError", mixed_entries |-> <<>>]
    ELSE [error_urls |-> acc.error_urls, raised |-> FALSE, exc |-> None,
          mixed_entries |-> extract_meta(SortDesc(acc.parsed_entries))]

\* __fetch_entries where the future of feeds[i] ends in resp[i] and the
\* futures complete in the order `order`, entered with the error map
\* previous: the error map it leaves, and either the KeyError the sort
\* raises or the new list of mixed entries.
fetch_entries(feeds, resp, order, num_keep, previous) ==
    Merge(CollectAll([parsed_entries |-> <<>>,
                      error_urls |-> ResetErrors(previous)],
                     feeds, resp, order, num_keep))

\* ------------------------------------------------------------------ the state

\* The constructor arguments max_feeds and max_threads of the instance.
MaxFeedsArg == 2

MaxThreadsArg == 2

VARIABLES
    title, link, desc,      \* self.title, self.link, self.desc
    max_feeds, max_threads, \* self.max_feeds, self.max_threads
    _feeds,                 \* self._feeds
    _num_keep,              \* self._num_keep
    _mixed_entries,         \* self._mixed_entries
    _error_urls,            \* self._error_urls: url -> the kind of its exception
    last,                   \* the operation the caller invoked last
    ret,                    \* what that operation gave back to the caller
    run,                    \* how the pipeline run that operation made ended:
                            \* "none" (it made none), "returned" or "raised"
    dispatched,             \* the urls that operation submitted to the pool
    resp,                   \* what the future of each of them ended in
    populated,              \* a run has returned since the last invalidation
    failed,                 \* the urls whose fetch or parse failed in the
                            \* most recent run
    recovered,              \* a url that failed in the run before the most
                            \* recent one did not fail in the most recent one
    assigned,               \* the list the caller assigned to feeds last
    origin,                 \* what wrote the value _mixed_entries holds: the
                            \* constructor, a setter, or a run (with the feeds
                            \* and num_keep it ran over)
    pc,                     \* where the calling thread is in __fetch_entries
    parsed_entries,         \* its local parsed_entries
    queue,                  \* the executor's work queue: indices into feeds
    threads,                \* the executor's threads: thread -> the index it
                            \* is fetching, or 0 when it is idle
    fut,                    \* the state of each future submitted
    completed,              \* the futures the loop has collected, in order
    actor,                  \* the thread that took the last step
    peak                    \* the largest number of fetches in flight so far

\* What exists only while __fetch_entries runs step by step.
pool == <<pc, parsed_entries, queue, threads, fut, completed, actor, peak>>

vars == <<title, link, desc, max_feeds, max_threads, _feeds, _num_keep,
          _mixed_entries, _error_urls, last, ret, run, dispatched, resp,
          populated, failed, recovered, assigned, origin, pool>>

config == <<title, link, desc, max_feeds, max_threads, _feeds, _num_keep>>

ReadOps == {"mixed_entries", "atom_feed", "rss_feed", "json_feed"}

\* What an operation gives back: nothing, an exception, or a value built
\* from the list of mixed entries (the generators and json.dumps are
\* external: their output is kept as the arguments they were given).
NoValue == [kind |-> "None"]

Raised(exc) == [kind |-> exc]

Render(op, entries) ==
    IF op \in {"atom_feed", "rss_feed"}
    THEN [kind |-> op, head |-> <<title, link, desc>>, items |-> entries]
    ELSE [kind |-> op, items |-> entries]

\* Truncated that keeps the whole list.
Untruncated(value) == value

\* value[:self.max_feeds]
Truncated(value) == SliceTo(value, max_feeds)

\* The calling thread, among the threads 1, 2, ... of the executor.
Caller == 0

\* What wrote _mixed_entries: a run over feeds and num_keep, or op.
ByRun(feeds, num_keep) == [by |-> "run", feeds |-> feeds, num_keep |-> num_keep]

By(op) == [by |-> op]

\* No run is in progress: no executor, no futures, no local list.
NoPool ==
    /\ pc = "out"
    /\ parsed_entries = <<>>
    /\ queue = <<>>
    /\ threads = <<>>
    /\ fut = <<>>
    /\ completed = <<>>
    /\ actor = Caller
    /\ peak = 0

\* FeedMixer(feeds=feeds, num_keep=..., max_feeds=m, max_threads=t)
Construct(feeds, m, t) ==
    /\ title = "Title" /\ link = "" /\ desc = ""
    /\ max_feeds = m
    /\ max_threads = t
    /\ _feeds = SliceTo(feeds, m)
    /\ assigned = feeds
    /\ _num_keep \in NumKeeps
    /\ _mixed_entries = <<>>
    /\ origin = By("__init__")
    /\ _error_urls = EmptyDict
    /\ last = "__init__"
    /\ ret = NoValue
    /\ run = "none"
    /\ dispatched = <<>>
    /\ resp = <<>>
    /\ populated = FALSE
    /\ failed = {}
    /\ recovered = FALSE
    /\ NoPool

Init == \E feeds \in FeedLists : Construct(feeds, MaxFeedsArg, MaxThreadsArg)

\* ------------------------------------------------------------- the operations

\* The orders in which n futures can complete.
Orders(n) ==
    {o \in [1..n -> 1..n] : \A i, j \in 1..n : i # j => o[i] # o[j]}

\* A fetch that ended in sh failed: in transport, or in the parse.
Failed(sh) ==
    \/ sh.kind = "RequestException"
    \/ sh.kind = "response" /\ sh.kinds = <<>> /\ sh.bozo

\* The guard of the mixed_entries property: nothing is in memory.
NeedsFetch == Len(_mixed_entries) < 1

\* self.__fetch_entries(), then what op makes of the outcome.  One future is
\* submitted per url of self.feeds; each ends in one of shapes, in some order.
FetchAndReturn(op, shapes) ==
    \E rs \in [DOMAIN _feeds -> shapes] : \E order \in Orders(Len(_feeds)) :
        \E r \in {fetch_entries(_feeds, rs, order, _num_keep, _error_urls)} :
            /\ dispatched' = _feeds
            /\ resp' = rs
            /\ failed' = {_feeds[i] : i \in {j \in DOMAIN rs : Failed(rs[j])}}
            /\ recovered' = (failed \ failed' # {})
            /\ _error_urls' = r.error_urls
            /\ _mixed_entries' =
                   IF r.raised THEN _mixed_entries ELSE r.mixed_entries
            /\ run' = IF r.raised THEN "raised" ELSE "returned"
            /\ origin' = IF r.raised THEN origin ELSE ByRun(_feeds, _num_keep)
            /\ populated' = IF r.raised THEN populated ELSE TRUE
            /\ ret' = IF r.raised THEN Raised(r.exc)
                      ELSE Render(op, r.mixed_entries)

\* Reading the mixed_entries property on behalf of op.
ReadMixedEntries(op, shapes) ==
    /\ IF NeedsFetch
       THEN FetchAndReturn(op, shapes)
       ELSE /\ ret' = Render(op, _mixed_entries)
            /\ run' = "none"
            /\ dispatched' = <<>>
            /\ resp' = <<>>
            /\ UNCHANGED <<_mixed_entries, _error_urls, populated, failed,
                           recovered, origin>>
    /\ last' = op
    /\ UNCHANGED <<config, assigned, pool>>

mixed_entries == ReadMixedEntries("mixed_entries", LifeShapes)

atom_feed == ReadMixedEntries("atom_feed", LifeShapes)

rss_feed == ReadMixedEntries("rss_feed", LifeShapes)

json_feed == ReadMixedEntries("json_feed", LifeShapes)

\* The error_urls property read, which also starts over with an empty map.
ErrorUrlsRefreshed ==
    /\ last' = "error_urls"
    /\ ret' = [kind |-> "error_urls", value |-> EmptyDict]
    /\ _error_urls' = EmptyDict
    /\ run' = "none"
    /\ dispatched' = <<>>
    /\ resp' = <<>>
    /\ UNCHANGED <<config, _mixed_entries, populated, failed, recovered,
                   assigned, origin, pool>>

\* Reading the error_urls property.
error_urls ==
    /\ last' = "error_urls"
    /\ ret' = [kind |-> "error_urls", value |-> _error_urls]
    /\ run' = "none"
    /\ dispatched' = <<>>
    /\ resp' = <<>>
    /\ UNCHANGED <<config, _mixed_entries, _error_urls, populated, failed,
                   recovered, assigned, origin, pool>>

\* What every operation but a read leaves behind for the caller.
Plainly(op) ==
    /\ last' = op
    /\ ret' = NoValue
    /\ run' = "none"
    /\ dispatched' = <<>>
    /\ resp' = <<>>
    /\ UNCHANGED <<failed, recovered, pool>>

\* The feeds setter applied to value, on behalf of op.
AssignFeeds(value, op) ==
    /\ _feeds' = Truncated(value)
    /\ _mixed_entries' = <<>>
    /\ origin' = By(op)

\* SetFeeds that fetches at once instead of leaving it to the next read.
SetFeedsEager ==
    \E value \in FeedLists :
        /\ AssignFeeds(value, "feeds")
        /\ assigned' = value
        /\ last' = "feeds"
        /\ ret' = NoValue
        /\ run' = "returned"
        /\ dispatched' = Truncated(value)
        /\ resp' = [i \in DOMAIN Truncated(value) |-> Failure]
        /\ populated' = FALSE
        /\ UNCHANGED <<title, link, desc, max_feeds, max_threads, _num_keep,
                       _error_urls, failed, recovered, pool>>

SetFeeds ==
    \E value \in FeedLists :
        /\ AssignFeeds(value, "feeds")
        /\ assigned' = value
        /\ Plainly("feeds")
        /\ populated' = FALSE
        /\ UNCHANGED <<title, link, desc, max_feeds, max_threads, _num_keep,
                       _error_urls>>

\* SetNumKeep that also empties the error map.
SetNumKeepClearing ==
    \E value \in NumKeeps :
        /\ _num_keep' = value
        /\ AssignFeeds(_feeds, "num_keep")
        /\ _error_urls' = EmptyDict
        /\ Plainly("num_keep")
        /\ populated' = FALSE
        /\ UNCHANGED <<title, link, desc, max_feeds, max_threads, assigned>>

\* SetNumKeep that leaves the mixed entries in memory.
SetNumKeepStale ==
    \E value \in NumKeeps :
        /\ _num_keep' = value
        /\ Plainly("num_keep")
        /\ UNCHANGED <<title, link, desc, max_feeds, max_threads, _feeds,
                       _mixed_entries, _error_urls, populated, assigned,
                       origin>>

SetNumKeep ==
    \E value \in NumKeeps :
        /\ _num_keep' = value
        /\ AssignFeeds(_feeds, "num_keep")
        /\ Plainly("num_keep")
        /\ populated' = FALSE
        /\ UNCHANGED <<title, link, desc, max_feeds, max_threads, _error_urls,
                       assigned>>

\* title, link and desc are plain attributes.
SetTitle ==
    \E value \in Titles :
        /\ title' = value
        /\ Plainly("title")
        /\ UNCHANGED <<link, desc, max_feeds, max_threads, _feeds, _num_keep,
                       _mixed_entries, _error_urls, populated, assigned,
                       origin>>

SetLink ==
    \E value \in Links :
        /\ link' = value
        /\ Plainly("link")
        /\ UNCHANGED <<title, desc, max_feeds, max_threads, _feeds, _num_keep,
                       _mixed_entries, _error_urls, populated, assigned,
                       origin>>

SetDesc ==
    \E value \in Descs :
        /\ desc' = value
        /\ Plainly("desc")
        /\ UNCHANGED <<title, link, max_feeds, max_threads, _feeds, _num_keep,
                       _mixed_entries, _error_urls, populated, assigned,
                       origin>>

\* The life of an instance: any operation, in any order.
Next ==
    \/ mixed_entries
    \/ atom_feed
    \/ rss_feed
    \/ json_feed
    \/ SetFeeds
    \/ SetNumKeep
    \/ SetTitle
    \/ SetLink
    \/ SetDesc
    \/ error_urls

Spec == Init /\ [][Next]_vars

\* One read of a new instance, whose fetches end in any of Shapes.
FirstRead(op) == last = "__init__" /\ ReadMixedEntries(op, Shapes)

NextRun ==
    \/ FirstRead("mixed_entries")
    \/ FirstRead("atom_feed")
    \/ FirstRead("rss_feed")
    \/ FirstRead("json_feed")

SpecRun == Init /\ [][NextRun]_vars

\* ------------------------------------------- __fetch_entries, step by step

\* The constructor arguments where the run is explored step by step: up to
\* one url more than before, and executors of every size up to max_threads.
PoolMaxFeeds == {MaxFeedsArg, MaxFeedsArg + 1}

PoolMaxThreads == 1..MaxThreadsArg

InitPool ==
    \E feeds \in FeedLists : \E m \in PoolMaxFeeds : \E t \in PoolMaxThreads :
        Construct(feeds, m, t)

\* What a fetch ends in there.
PoolShapes ==
    {Failure, Response(<<>>, TRUE, FALSE), Response(<<Plain>>, FALSE, FALSE),
     Response(<<Undated>>, FALSE, FALSE)}

\* A future that has no result yet.
Pending == [kind |-> "pending"]

\* MaxWorkers that lets the executor start a thread per url.
MaxWorkersPerUrl == Len(_feeds)

\* ThreadPoolExecutor(max_workers=self.max_threads)
MaxWorkers == max_threads

\* The threads that are running a fetch.
InFlight == {w \in DOMAIN threads : threads[w] # 0}

Idle == {w \in DOMAIN threads : threads[w] = 0}

\* The futures the loop has collected.
Collected == {completed[j] : j \in DOMAIN completed}

\* The read of mixed_entries on behalf of op enters __fetch_entries: the
\* local list and the error map are emptied and the executor is created.
EnterFetch ==
    \E op \in ReadOps :
        /\ pc = "out"
        /\ last = "__init__"
        /\ NeedsFetch
        /\ last' = op
        /\ run' = "running"
        /\ parsed_entries' = <<>>
        /\ _error_urls' = ResetErrors(_error_urls)
        /\ pc' = IF _feeds = <<>> THEN "collect" ELSE "submit"
        /\ actor' = Caller
        /\ UNCHANGED <<config, _mixed_entries, ret, dispatched, resp,
                       populated, failed, recovered, assigned, origin, queue,
                       threads, fut, completed, peak>>

\* exec.submit(self.cache_get, self.cache, url) for the next url of feeds:
\* the work item is queued, and the executor starts a thread if it has
\* fewer than max_workers (it may do without when one of them is idle).
Submit ==
    /\ pc = "submit"
    /\ LET i == Len(dispatched) + 1
       IN  /\ dispatched' = Append(dispatched, _feeds[i])
           /\ fut' = Append(fut, "pending")
           /\ resp' = Append(resp, Pending)
           /\ queue' = Append(queue, i)
           /\ pc' = IF i = Len(_feeds) THEN "collect" ELSE "submit"
    /\ \/ /\ Len(threads) < MaxWorkers
          /\ threads' = Append(threads, 0)
       \/ /\ Len(threads) >= MaxWorkers \/ Idle # {}
          /\ threads' = threads
    /\ actor' = Caller
    /\ UNCHANGED <<config, _mixed_entries, _error_urls, last, ret, run,
                   populated, failed, recovered, assigned, origin,
                   parsed_entries, completed, peak>>

\* An idle thread of the executor takes the next work item and calls
\* cache_get for its url.
WorkerTake ==
    \E w \in Idle :
        /\ queue # <<>>
        /\ threads' = [threads EXCEPT ![w] = Head(queue)]
        /\ queue' = Tail(queue)
        /\ fut' = [fut EXCEPT ![Head(queue)] = "running"]
        /\ peak' = Max(peak, Cardinality(InFlight) + 1)
        /\ actor' = w
        /\ UNCHANGED <<config, _mixed_entries, _error_urls, last, ret, run,
                       dispatched, resp, populated, failed, recovered,
                       assigned, origin, pc, parsed_entries, completed>>

\* WorkerFinish in which the thread itself records a failed fetch.
WorkerFinishRecording ==
    \E w \in InFlight : \E sh \in PoolShapes :
        /\ resp' = [resp EXCEPT ![threads[w]] = sh]
        /\ fut' = [fut EXCEPT ![threads[w]] = "finished"]
        /\ threads' = [threads EXCEPT ![w] = 0]
        /\ _error_urls' = IF sh = Failure
                          THEN Put(_error_urls, dispatched[threads[w]],
                                   "RequestException")
                          ELSE _error_urls
        /\ actor' = w
        /\ UNCHANGED <<config, _mixed_entries, last, ret, run,
                       dispatched, populated, failed, recovered, assigned,
                       origin, pc, parsed_entries, queue, completed, peak>>

\* cache_get returns or raises in a thread: the future gets its result or
\* its exception and the thread is idle again.
WorkerFinish ==
    \E w \in InFlight : \E sh \in PoolShapes :
        /\ resp' = [resp EXCEPT ![threads[w]] = sh]
        /\ fut' = [fut EXCEPT ![threads[w]] = "finished"]
        /\ threads' = [threads EXCEPT ![w] = 0]
        /\ actor' = w
        /\ UNCHANGED <<config, _mixed_entries, _error_urls, last, ret, run,
                       dispatched, populated, failed, recovered, assigned,
                       origin, pc, parsed_entries, queue, completed, peak>>

\* One turn of the loop over as_completed: a finished future not yet
\* collected is handed to the loop body.
CollectOne ==
    \E i \in DOMAIN fut \ Collected :
        /\ pc = "collect"
        /\ fut[i] = "finished"
        /\ \E acc \in {Collect([parsed_entries |-> parsed_entries,
                                 error_urls |-> _error_urls],
                                dispatched[i], resp[i], _num_keep)} :
              /\ parsed_entries' = acc.parsed_entries
              /\ _error_urls' = acc.error_urls
        /\ completed' = Append(completed, i)
        /\ actor' = Caller
        /\ UNCHANGED <<config, _mixed_entries, last, ret, run, dispatched,
                       resp, populated, failed, recovered, assigned, origin,
                       pc, queue, threads, fut, peak>>

\* LoopDone that lets the loop end at any time.
LoopDoneEarly == TRUE

\* as_completed is exhausted: every future submitted has been collected.
LoopDone == Collected = DOMAIN dispatched

\* The end of the `with` block: the executor is shut down, which waits for
\* its threads, all idle and with nothing left to take.
ExitWith ==
    /\ pc = "collect"
    /\ LoopDone
    /\ queue = <<>>
    /\ InFlight = {}
    /\ pc' = "merge"
    /\ threads' = <<>>
    /\ actor' = Caller
    /\ UNCHANGED <<config, _mixed_entries, _error_urls, last, ret, run,
                   dispatched, resp, populated, failed, recovered, assigned,
                   origin, parsed_entries, queue, fut, completed, peak>>

\* The sort and extract_meta, the assignment to _mixed_entries, and what
\* the operation that made the read hands to its caller.
SortAndStore ==
    /\ pc = "merge"
    /\ \E r \in {Merge([parsed_entries |-> parsed_entries,
                        error_urls |-> _error_urls])} :
          /\ _mixed_entries' =
                 IF r.raised THEN _mixed_entries ELSE r.mixed_entries
          /\ origin' = IF r.raised THEN origin ELSE ByRun(_feeds, _num_keep)
          /\ run' = IF r.raised THEN "raised" ELSE "returned"
          /\ populated' = IF r.raised THEN populated ELSE TRUE
          /\ ret' = IF r.raised THEN Raised(r.exc)
                    ELSE Render(last, r.mixed_entries)
    /\ failed' = {dispatched[i] : i \in {j \in DOMAIN resp : Failed(resp[j])}}
    /\ pc' = "done"
    /\ actor' = Caller
    /\ UNCHANGED <<config, _error_urls, last, dispatched, resp, recovered,
                   assigned, parsed_entries, queue, threads, fut, completed,
                   peak>>

NextPool ==
    \/ EnterFetch
    \/ Submit
    \/ WorkerTake
    \/ WorkerFinish
    \/ CollectOne
    \/ ExitWith
    \/ SortAndStore

SpecPool == InitPool /\ [][NextPool]_vars

\* ------------------------------------- the pure steps, each by itself

\* A state in which one step of the pipeline is applied by itself to an
\* input: the document rs[1] served at u1, or the list of entries es.
Standalone(rs, es) ==
    /\ title = "Title" /\ link = "" /\ desc = ""
    /\ max_feeds = MaxFeedsArg
    /\ max_threads = MaxThreadsArg
    /\ _feeds = <<"u1">>
    /\ assigned = <<"u1">>
    /\ _mixed_entries = <<>>
    /\ origin = By("__init__")
    /\ _error_urls = EmptyDict
    /\ last = "__init__"
    /\ ret = NoValue
    /\ run = "none"
    /\ dispatched = <<"u1">>
    /\ resp = rs
    /\ populated = FALSE
    /\ failed = {}
    /\ recovered = FALSE
    /\ pc = "out"
    /\ parsed_entries = es
    /\ queue = <<>>
    /\ threads = <<>>
    /\ fut = <<>>
    /\ completed = <<>>
    /\ actor = Caller
    /\ peak = 0

\* The documents the selection is applied to, and the values of num_keep.
InitKeep ==
    /\ _num_keep \in NumKeeps
    /\ \E ks \in SeqsUpTo(EntryKinds, MaxDocEntries) : \E a \in BOOLEAN :
          Standalone(<<Response(ks, FALSE, a)>>, <<>>)

\* Lines 225-228 applied to the parsed document: `newest`.
SelectNewest ==
    /\ last = "__init__"
    /\ last' = "newest"
    /\ ret' = [kind |-> "newest",
               items |-> Newest(Parsed(dispatched[1], resp[1]), _num_keep)]
    /\ UNCHANGED <<config, _mixed_entries, _error_urls, run, dispatched, resp,
                   populated, failed, recovered, assigned, origin, pool>>

SpecKeep == InitKeep /\ [][SelectNewest]_vars

\* The fields of an entry that extract_meta looks at.
MetaFields ==
    {"title", "link", "description", "author_detail", "published_parsed",
     "updated_parsed", "comments", "id", "license", "tags", "enclosures"}

\* Enclosures as the parser returns them: href, length and type are each
\* present only if the document gives them.
FullEnclosure ==
    [href |-> "http://example.com/a.mp3", length |-> "1024",
     type |-> "audio/mpeg"]

BareEnclosure == [href |-> "http://example.com/b.mp3"]

EnclosureLists ==
    {<<>>, <<FullEnclosure>>, <<FullEnclosure, BareEnclosure>>}

\* The entry holding the fields in present, with the enclosures encs if it
\* has any.  Both its times fall on a leap second.
MetaEntry(present, encs) ==
    [f \in present |->
        CASE f = "title" -> "entry"
          [] f = "link" -> "http://example.com/1"
          [] f = "description" -> "text"
          [] f = "author_detail" -> OwnAuthor
          [] f = "published_parsed" -> PubLate.published_parsed
          [] f = "updated_parsed" -> <<2024, 6, 30, 23, 59, 60>>
          [] f = "comments" -> "http://example.com/1#comments"
          [] f = "id" -> "tag:example.com,1"
          [] f = "license" -> "CC0"
          [] f = "tags" -> <<[term |-> "news"], [label |-> "untitled"]>>
          [] f = "enclosures" -> encs]

MetaEntries ==
    {MetaEntry(present, encs) :
        present \in SUBSET MetaFields, encs \in EnclosureLists}

\* The entries that longer lists are made of.
MetaSamples ==
    {MetaEntry({}, <<>>),
     MetaEntry({"id", "published_parsed"}, <<>>),
     MetaEntry(MetaFields, <<FullEnclosure>>)}

\* The lists extract_meta is applied to.
InitMeta ==
    /\ _num_keep \in {Unlimited}
    /\ \E es \in {<<e>> : e \in MetaEntries}
                  \cup SeqsUpTo(MetaSamples, MaxMetaEntries) :
          Standalone(<<>>, es)

\* FeedMixer.extract_meta(parsed_entries)
ExtractMeta ==
    /\ last = "__init__"
    /\ last' = "extract_meta"
    /\ ret' = IF ExtractRaises(parsed_entries) THEN Raised("AttributeError")
              ELSE [kind |-> "extract_meta",
                    items |-> extract_meta(parsed_entries)]
    /\ UNCHANGED <<config, _mixed_entries, _error_urls, run, dispatched, resp,
                   populated, failed, recovered, assigned, origin, pool>>

SpecMeta == InitMeta /\ [][ExtractMeta]_vars

\* ------------------------------------------------------------------ the claims

\* The records among entries that come from url: every entry drawn here
\* carries an id naming the url it was served at.
FromSource(entries, url) ==
    SelectSeq(entries, LAMBDA m : m["unique_id"][1] = url)

\* The i-th future of the run the last operation made: its url, and the
\* entries the run keeps of its document.
UrlOf(i) == dispatched[i]

KeptOf(i) ==
    IF Failed(resp[i]) THEN <<>>
    ELSE Backfill(Parsed(UrlOf(i), resp[i]),
                  Newest(Parsed(UrlOf(i), resp[i]), _num_keep))

\* Some entry the run keeps has no 'published' key.
KeepsUndated ==
    \E i \in DOMAIN resp : \E k \in DOMAIN KeptOf(i) : ~HasSortKey(KeptOf(i)[k])

\* What the i-th source contributes to the run of the same sources with the
\* failed ones left out: its kept entries, sorted and normalised (and
\* nothing when that run raises, as it does whenever this one does).
UnaffectedShare(i) ==
    IF KeepsUndated THEN <<>> ELSE extract_meta(SortDesc(KeptOf(i)))

\* C1: after a pipeline run, a source whose fetch failed with a transport
\* error has its url in the error map and no record among the mixed entries;
\* every other source has the records it has in the run without the failed
\* sources, and is not in the error map if it succeeded.
C1_FailureIsolated ==
    run # "none" =>
        \A i \in DOMAIN resp :
            IF resp[i].kind = "RequestException"
            THEN /\ UrlOf(i) \in DOMAIN _error_urls
                 /\ FromSource(_mixed_entries, UrlOf(i)) = <<>>
            ELSE /\ ~Failed(resp[i]) => UrlOf(i) \notin DOMAIN _error_urls
                 /\ FromSource(_mixed_entries, UrlOf(i)) = UnaffectedShare(i)

\* A run in which one fetch failed in transport and another source has
\* records among the mixed entries.
C1_Witness ==
    /\ run = "returned"
    /\ \E i, j \in DOMAIN resp :
          /\ resp[i].kind = "RequestException"
          /\ FromSource(_mixed_entries, UrlOf(j)) # <<>>

\* C2: every pipeline run completes, whatever its fetches end in and
\* whatever the entries hold (no run raises); when every source fails the
\* mixed entries are empty and every configured url is in the error map.
C2_RunAlwaysCompletes ==
    /\ run # "raised"
    /\ (run = "returned" /\ \A i \in DOMAIN resp : Failed(resp[i])) =>
          /\ _mixed_entries = <<>>
          /\ \A i \in DOMAIN _feeds : _feeds[i] \in DOMAIN _error_urls

\* C3: once a run has returned and until feeds or num_keep is reassigned,
\* a read submits no fetch, leaves the mixed entries as they are and hands
\* them to the caller, whatever the run's result was.
C3_PopulatedReadsFromMemory ==
    [][(populated /\ populated' /\ last' \in ReadOps) =>
          /\ dispatched' = <<>>
          /\ _mixed_entries' = _mixed_entries
          /\ ret'.items = _mixed_entries]_vars

\* C4: reassigning feeds or num_keep after a run has returned empties the
\* mixed entries and the next read makes a run; reassigning title, link or
\* desc leaves the mixed entries as they are and the next read makes no run
\* (it submits no fetch).
C4_OnlyFeedsAndNumKeepInvalidate ==
    [][/\ (populated /\ last' \in {"feeds", "num_keep"}) =>
              _mixed_entries' = <<>>
       /\ (last \in {"feeds", "num_keep"} /\ last' \in ReadOps) =>
              run' # "none"
       /\ (populated /\ last' \in {"title", "link", "desc"}) =>
              _mixed_entries' = _mixed_entries
       /\ (populated /\ last \in {"title", "link", "desc"}
             /\ last' \in ReadOps) =>
              dispatched' = <<>>]_vars

\* C5: the constructor and the setters submit no fetch; a read made while no
\* run has returned since construction or the last invalidation makes one
\* pipeline run; a run submits one fetch per url of feeds, in their order.
C5_LazyFetch ==
    /\ [](/\ last \notin ReadOps => (run = "none" /\ dispatched = <<>>)
          /\ run # "none" => dispatched = _feeds
          /\ run = "none" => dispatched = <<>>)
    /\ [][(~populated /\ last' \in ReadOps) => run' # "none"]_vars

\* A read that made a run over two urls, after the feeds were reassigned.
C5_Witness ==
    /\ last \in ReadOps
    /\ run = "returned"
    /\ populated
    /\ Len(dispatched) = 2

\* C6: after any sequence of operations the keys of the error map are the
\* urls that failed, in transport or in the parse, in the most recent run.
C6_ErrorsOfLatestRun == DOMAIN _error_urls = failed

\* A run just made in which a url that failed in the run before did not
\* fail, while another url did.
C6_Witness ==
    /\ run # "none"
    /\ recovered
    /\ failed # {}

\* C7: the mixed entries are ordered by pubdate, latest first: of two
\* adjacent records that both carry a pubdate the first is not the earlier.
C7_SortedByPubdate ==
    \A j \in 1..(Len(_mixed_entries) - 1) :
        ("pubdate" \in DOMAIN _mixed_entries[j]
            /\ "pubdate" \in DOMAIN _mixed_entries[j + 1]) =>
        ~SeqLess(_mixed_entries[j]["pubdate"], _mixed_entries[j + 1]["pubdate"])

\* The sum over the sources that succeeded, from the i-th on, of
\* min(num_keep, number of entries the source has).
RECURSIVE QuotaFrom(_)
QuotaFrom(i) ==
    IF i > Len(resp) THEN 0
    ELSE (IF Failed(resp[i]) THEN 0
          ELSE Min(_num_keep, Len(resp[i].kinds))) + QuotaFrom(i + 1)

C9_ParseErrorOnlyWhenEmptyAndBozo ==
    run # "none" =>
        \A i \in DOMAIN resp :
            resp[i].kind = "response" =>
                /\ (resp[i].kinds = <<>> /\ resp[i].bozo) =>
                      /\ UrlOf(i) \in DOMAIN _error_urls
                      /\ _error_urls[UrlOf(i)] = "ParseError"
                /\ (resp[i].kinds = <<>> /\ ~resp[i].bozo) =>
                      /\ UrlOf(i) \notin DOMAIN _error_urls
                      /\ FromSource(_mixed_entries, UrlOf(i)) = <<>>
                /\ resp[i].kinds # <<>> =>
                      ~(/\ UrlOf(i) \in DOMAIN _error_urls
                        /\ _error_urls[UrlOf(i)] = "ParseError")

\* A run with an empty document flagged bozo and an entry-bearing document
\* flagged bozo.
C9_Witness ==
    /\ run = "returned"
    /\ \E i, j \in DOMAIN resp :
          /\ resp[i].kind = "response" /\ resp[i].kinds = <<>> /\ resp[i].bozo
          /\ resp[j].kind = "response" /\ resp[j].kinds # <<>> /\ resp[j].bozo
          /\ FromSource(_mixed_entries, UrlOf(j)) # <<>>

AuthorKeys == {"author_email", "author_name", "author_link"}

\* The record m carries the author a.
CarriesAuthor(m, a) ==
    /\ AuthorKeys \subseteq DOMAIN m
    /\ m["author_email"] = Get(a, "email")
    /\ m["author_name"] = Get(a, "name")
    /\ m["author_link"] = Get(a, "href")

\* The entry, as parsed, that the record m was made from, and whether the
\* document it came in names a feed author.
SourceIndex(m) == CHOOSE i \in DOMAIN resp : UrlOf(i) = m["unique_id"][1]

OriginOf(m) ==
    Parsed(UrlOf(SourceIndex(m)), resp[SourceIndex(m)]).entries[m["unique_id"][2]]

HasFeedAuthor(m) == resp[SourceIndex(m)].author

\* C10: the record of a kept entry carries the entry's own author when it
\* has one, whatever the feed's; the feed's author when the entry has none
\* and the feed has one; and no author fields when neither has one.
C10_AuthorInherited ==
    run # "none" =>
        \A j \in DOMAIN _mixed_entries :
            LET m == _mixed_entries[j]
            IN  IF "author_detail" \in DOMAIN OriginOf(m)
                THEN CarriesAuthor(m, OriginOf(m)["author_detail"])
                ELSE IF HasFeedAuthor(m)
                THEN CarriesAuthor(m, FeedAuthor)
                ELSE AuthorKeys \cap DOMAIN m = {}

\* A run whose mixed entries hold a record that inherited the feed's author,
\* one that kept its own under a feed author, and one with no author.
C10_Witness ==
    /\ run = "returned"
    /\ \E a, b, c \in DOMAIN _mixed_entries :
          /\ "author_detail" \notin DOMAIN OriginOf(_mixed_entries[a])
          /\ HasFeedAuthor(_mixed_entries[a])
          /\ "author_detail" \in DOMAIN OriginOf(_mixed_entries[b])
          /\ HasFeedAuthor(_mixed_entries[b])
          /\ "author_detail" \notin DOMAIN OriginOf(_mixed_entries[c])
          /\ ~HasFeedAuthor(_mixed_entries[c])

\* C12: in every state the stored list of urls is no longer than max_feeds
\* and is a prefix, in order, of the list the caller assigned last (to the
\* constructor or to feeds), whatever was assigned to num_keep since.
C12_FeedsIsBoundedPrefix ==
    /\ Len(_feeds) <= max_feeds
    /\ Len(_feeds) <= Len(assigned)
    /\ _feeds = SubSeq(assigned, 1, Len(_feeds))

\* A read has returned the result of a run over the stored list, which is
\* the first max_feeds urls of a longer list assigned.
C12_Witness ==
    /\ Len(assigned) > max_feeds
    /\ Len(_feeds) = max_feeds
    /\ origin = ByRun(_feeds, _num_keep)
    /\ last \in ReadOps

\* C14: immediately after feeds or num_keep is reassigned both the mixed
\* entries and the error map are empty.
C14_ResetsWholeState ==
    last \in {"feeds", "num_keep"} =>
        /\ _mixed_entries = <<>>
        /\ _error_urls = EmptyDict

\* C14 as amended: reassigning feeds or num_keep empties the mixed entries
\* and leaves the error map as the most recent run left it.
C14_ResetsEntriesOnly ==
    [][last' \in {"feeds", "num_keep"} =>
          /\ _mixed_entries' = <<>>
          /\ _error_urls' = _error_urls]_vars

\* feeds or num_keep was just reassigned while the error map held a url.
C14_Witness ==
    /\ last \in {"feeds", "num_keep"}
    /\ _error_urls # EmptyDict
    /\ _mixed_entries = <<>>
    /\ origin.by = last

\* C19: a read that returns hands over the mixed entries in memory, and
\* these were written by a run over the feeds and the num_keep the instance
\* holds at the time of the read.
C19_ResultOfCurrentConfig ==
    (last \in ReadOps /\ ret.kind # "KeyError") =>
        /\ ret.items = _mixed_entries
        /\ origin = ByRun(_feeds, _num_keep)

\* A read served from memory, after at least two runs, the latest over two
\* urls.
C19_Witness ==
    /\ last \in ReadOps
    /\ run = "none"
    /\ _mixed_entries # <<>>
    /\ recovered
    /\ origin = ByRun(_feeds, _num_keep)
    /\ Len(_feeds) = 2

\* The kind of error the run the last operation made has for the url u.
ErrorKindOf(u) ==
    LET i == CHOOSE j \in DOMAIN dispatched : dispatched[j] = u
    IN  IF resp[i].kind = "RequestException" THEN "RequestException"
        ELSE "ParseError"

\* C20: reading error_urls makes no run and leaves the mixed entries, the
\* error map, feeds and num_keep as they are; it returns the error map,
\* which is empty in a new instance and otherwise holds the urls that
\* failed in the most recent run, each with the kind of its failure.
C20_ErrorUrlsReadOnly ==
    /\ [](last = "error_urls" =>
            /\ run = "none"
            /\ dispatched = <<>>
            /\ ret.value = _error_urls
            /\ DOMAIN ret.value = failed)
    /\ [][last' = "error_urls" =>
            UNCHANGED <<_mixed_entries, _error_urls, _feeds, _num_keep,
                        populated>>]_vars
    /\ [][(last = "__init__" /\ last' = "error_urls") =>
            ret'.value = EmptyDict]_vars
    /\ [][(run # "none" /\ last' = "error_urls") =>
            ret'.value = [u \in failed |-> ErrorKindOf(u)]]_vars

\* error_urls read after feeds was reassigned, while the map holds a url of
\* the run before.
C20_Witness ==
    /\ last = "error_urls"
    /\ ret.value # EmptyDict
    /\ ~populated
    /\ origin.by = "feeds"

\* C11: at every instant of a run at most max_threads fetches are in
\* flight, however many urls are configured, and when the run is over every
\* configured url has been submitted and its fetch has finished.
C11_AtMostMaxThreadsInFlight ==
    /\ Cardinality(InFlight) <= max_threads
    /\ peak <= max_threads
    /\ pc = "done" =>
          /\ dispatched = _feeds
          /\ \A i \in DOMAIN _feeds : fut[i] = "finished" /\ resp[i] # Pending

\* A run over more urls than max_threads is over, and at some instant
\* max_threads fetches were in flight.
C11_Witness ==
    /\ pc = "done"
    /\ Len(_feeds) > max_threads
    /\ max_threads > 1
    /\ peak = max_threads

\* The number of times x occurs in the sequence s.
Count(s, x) == Cardinality({i \in DOMAIN s : s[i] = x})

\* The sequences s and t hold the same elements the same number of times.
SameMultiset(s, t) ==
    /\ Len(s) = Len(t)
    /\ \A i \in DOMAIN s : Count(s, s[i]) = Count(t, s[i])

\* The run over the same urls with the same outcomes in which the futures
\* complete in the order they were submitted.
InSubmissionOrder ==
    fetch_entries(dispatched, resp, [i \in DOMAIN dispatched |-> i], _num_keep,
                  EmptyDict)

\* C13: whatever the order the fetches complete in and the loop collects
\* them in, a run leaves the same set of urls in the error map and the same
\* multiset of mixed entries as the run with the same outcomes whose
\* fetches complete in the order of submission.
C13_OrderIndependent ==
    pc = "done" =>
        /\ DOMAIN _error_urls = DOMAIN InSubmissionOrder.error_urls
        /\ (run = "raised") = InSubmissionOrder.raised
        /\ SameMultiset(_mixed_entries, InSubmissionOrder.mixed_entries)

\* A run of three fetches collected in an order other than submission, the
\* last submitted first, with an error and entries of two sources.
C13_Witness ==
    /\ pc = "done"
    /\ run = "returned"
    /\ Len(completed) = 3
    /\ completed[1] = 3
    /\ _error_urls # EmptyDict
    /\ Len(_mixed_entries) = 2

\* C15: when the read that made a run is over, returning or raising, no
\* work item is queued, no fetch is in flight and every future has
\* finished; when it returns, every source either is in the error map or
\* has all the entries kept of it among the mixed entries.
C15_ReturnsAfterAllFetches ==
    pc = "done" =>
        /\ queue = <<>>
        /\ InFlight = {}
        /\ Len(fut) = Len(_feeds)
        /\ \A i \in DOMAIN fut : fut[i] = "finished"
        /\ run = "returned" =>
              /\ ret.items = _mixed_entries
              /\ \A i \in DOMAIN resp :
                    IF Failed(resp[i])
                    THEN UrlOf(i) \in DOMAIN _error_urls
                    ELSE FromSource(_mixed_entries, UrlOf(i))
                            = extract_meta(SortDesc(KeptOf(i)))

\* A read has returned the entries of three sources fetched by an executor
\* of fewer threads.
C15_Witness ==
    /\ pc = "done"
    /\ run = "returned"
    /\ Len(dispatched) = 3
    /\ max_threads < 3
    /\ \A i \in DOMAIN dispatched : FromSource(ret.items, UrlOf(i)) # <<>>

\* C18: every step that changes the error map, the local list of parsed
\* entries or the mixed entries is a step of the calling thread; a step of
\* an executor thread changes none of them.
C18_OnlyCallerWrites ==
    [][(\/ _error_urls' # _error_urls
        \/ parsed_entries' # parsed_entries
        \/ _mixed_entries' # _mixed_entries) => actor' = Caller]_vars

\* The calling thread has recorded an error and collected entries while a
\* fetch is in flight, and the last step was an executor thread's.
C18_Witness ==
    /\ pc = "collect"
    /\ _error_urls # EmptyDict
    /\ parsed_entries # <<>>
    /\ InFlight # {}
    /\ actor # Caller

\* The entries of the document the selection was applied to.
DocEntries == Parsed(dispatched[1], resp[1]).entries

\* C16: the entries kept of a document are all of them, in order, when
\* num_keep is -1, and for every other num_keep the first
\* min(num_keep, number of entries), in order.
C16_KeepsFirstMin ==
    last = "newest" =>
        IF _num_keep = Unlimited
        THEN ret.items = DocEntries
        ELSE ret.items
                = SubSeq(DocEntries, 1, Min(_num_keep, Len(DocEntries)))

\* C16 as amended: the entries kept are all of them when num_keep is -1,
\* the first min(num_keep, number of entries) when num_keep >= 0, and all
\* but the last -num_keep when num_keep < -1; always in document order.
C16_KeepsFirstOrDropsLast ==
    last = "newest" =>
        ret.items =
            SubSeq(DocEntries, 1,
                   IF _num_keep = Unlimited THEN Len(DocEntries)
                   ELSE IF _num_keep >= 0 THEN Min(_num_keep, Len(DocEntries))
                   ELSE Max(Len(DocEntries) + _num_keep, 0))

\* The first two of three entries of different kinds were kept.
C16_Witness ==
    /\ last = "newest"
    /\ _num_keep = 2
    /\ Len(DocEntries) = 3
    /\ DocEntries[1] # DocEntries[2]
    /\ ret.items = <<DocEntries[1], DocEntries[2]>>

\* C17: extract_meta returns, for every list of entries holding any of the
\* optional fields, a list of the same length whose i-th record is made
\* from the i-th entry, with title, link and description the entry's or
\* the empty string and with the seconds of pubdate and updateddate at
\* most 59; it never raises and leaves its argument as it was.
C17_NormalizerTotalPure ==
    /\ [](last = "extract_meta" =>
            /\ ret.kind = "extract_meta"
            /\ Len(ret.items) = Len(parsed_entries)
            /\ \A i \in DOMAIN parsed_entries :
                  /\ ret.items[i]["unique_id"] = Get(parsed_entries[i], "id")
                  /\ \A f \in {"title", "link", "description"} :
                        ret.items[i][f] = GetOr(parsed_entries[i], f, "")
                  /\ "published_parsed" \in DOMAIN parsed_entries[i] =>
                        ret.items[i]["pubdate"] =
                            <<2024, 1, 1, 23, 59, 59>>
                  /\ "updated_parsed" \in DOMAIN parsed_entries[i] =>
                        ret.items[i]["updateddate"] =
                            <<2024, 6, 30, 23, 59, 59>>)
    /\ [][last' = "extract_meta" => parsed_entries' = parsed_entries]_vars

====
